---- MODULE Spec2Model ----
(***************************************************************************)
(* Model of the generic Trie of src/lib.rs: a recursive node type with an  *)
(* insertion-ordered vector of children, an optional key element and an    *)
(* optional data value, with the two operations insert and search.         *)
(***************************************************************************)
EXTENDS Integers, Sequences, FiniteSets, TLC

\* ---------------------------------------------------------------- bounds
MaxKeyLen == 2
MaxInserts == 2

\* ------------------------------------------------------ inputs of callers
\* the key element type K and the data type D, instantiated as in
\* test_ints_and_vectors with two elements each
KeyElems == {1, 2}

Values == {10, 20}


SeqsUpTo(n) == UNION {[1..m -> KeyElems] : m \in 0..n}

Keys == SeqsUpTo(MaxKeyLen)

\* queries are as long as keys: a query running past a stored key is one
\* running past a key shorter than MaxKeyLen
Queries == SeqsUpTo(MaxKeyLen)

\* ------------------------------------------------------ Option<T>, Result
None == <<>>

Some(x) == <<x>>

Ok == "Ok"

Err == "key already present!"

\* ------------------------------------------------------------- the struct
new_empty == [children |-> <<>>, key |-> None, data |-> None]

\* the node pushed by insert_iter when no child matches
new_child(this_key_value) ==
    [children |-> <<>>, key |-> Some(this_key_value), data |-> None]

\* The loop over self.children: index of the first child whose key is
\* Some(this_key_value), 0 when the loop falls through.
MatchingChild(children, this_key_value) ==
    LET hits == {i \in 1..Len(children) :
                    /\ children[i].key # None
                    /\ children[i].key[1] = this_key_value}
    IN IF hits = {} THEN 0
       ELSE CHOOSE i \in hits : \A j \in hits : i <= j

\* ----------------------------------------------------------------- insert
\* mutant: the freshly built child is never pushed onto self.children
RECURSIVE insert_iter_nopush(_, _, _)
insert_iter_nopush(self, key_elems, data) ==
    IF key_elems # <<>>
    THEN LET this_key_value == Head(key_elems)
             idx == MatchingChild(self.children, this_key_value)
         IN IF idx # 0
            THEN LET r == insert_iter_nopush(self.children[idx], Tail(key_elems), data)
                 IN [trie |-> [self EXCEPT !.children[idx] = r.trie], res |-> r.res]
            ELSE LET r == insert_iter_nopush(new_child(this_key_value), Tail(key_elems), data)
                 IN [trie |-> self, res |-> r.res]
    ELSE IF self.data = None
         THEN [trie |-> [self EXCEPT !.data = Some(data)], res |-> Ok]
         ELSE [trie |-> self, res |-> Err]

\* mutant: a present value is silently overwritten before the error is returned
RECURSIVE insert_iter_overwrite(_, _, _)
insert_iter_overwrite(self, key_elems, data) ==
    IF key_elems # <<>>
    THEN LET this_key_value == Head(key_elems)
             idx == MatchingChild(self.children, this_key_value)
         IN IF idx # 0
            THEN LET r == insert_iter_overwrite(self.children[idx], Tail(key_elems), data)
                 IN [trie |-> [self EXCEPT !.children[idx] = r.trie], res |-> r.res]
            ELSE LET r == insert_iter_overwrite(new_child(this_key_value), Tail(key_elems), data)
                 IN [trie |-> [self EXCEPT !.children = Append(@, r.trie)], res |-> r.res]
    ELSE IF self.data = None
         THEN [trie |-> [self EXCEPT !.data = Some(data)], res |-> Ok]
         ELSE [trie |-> [self EXCEPT !.data = Some(data)], res |-> Err]

\* mutant: a present value is not detected, the insert reports success
RECURSIVE insert_iter_nodup(_, _, _)
insert_iter_nodup(self, key_elems, data) ==
    IF key_elems # <<>>
    THEN LET this_key_value == Head(key_elems)
             idx == MatchingChild(self.children, this_key_value)
         IN IF idx # 0
            THEN LET r == insert_iter_nodup(self.children[idx], Tail(key_elems), data)
                 IN [trie |-> [self EXCEPT !.children[idx] = r.trie], res |-> r.res]
            ELSE LET r == insert_iter_nodup(new_child(this_key_value), Tail(key_elems), data)
                 IN [trie |-> [self EXCEPT !.children = Append(@, r.trie)], res |-> r.res]
    ELSE [trie |-> self, res |-> Ok]

\* mutant: the scan of the children is skipped, a child is always created
RECURSIVE insert_iter_noscan(_, _, _)
insert_iter_noscan(self, key_elems, data) ==
    IF key_elems # <<>>
    THEN LET this_key_value == Head(key_elems)
             r == insert_iter_noscan(new_child(this_key_value), Tail(key_elems), data)
         IN [trie |-> [self EXCEPT !.children = Append(@, r.trie)], res |-> r.res]
    ELSE IF self.data = None
         THEN [trie |-> [self EXCEPT !.data = Some(data)], res |-> Ok]
         ELSE [trie |-> self, res |-> Err]

\* mutant: a matching child is rebuilt from scratch instead of being reused
RECURSIVE insert_iter_rebuild(_, _, _)
insert_iter_rebuild(self, key_elems, data) ==
    IF key_elems # <<>>
    THEN LET this_key_value == Head(key_elems)
             idx == MatchingChild(self.children, this_key_value)
             r == insert_iter_rebuild(new_child(this_key_value), Tail(key_elems), data)
         IN IF idx # 0
            THEN [trie |-> [self EXCEPT !.children[idx] = r.trie], res |-> r.res]
            ELSE [trie |-> [self EXCEPT !.children = Append(@, r.trie)], res |-> r.res]
    ELSE IF self.data = None
         THEN [trie |-> [self EXCEPT !.data = Some(data)], res |-> Ok]
         ELSE [trie |-> self, res |-> Err]

\* mutant: every node created on the way also receives the value
RECURSIVE insert_iter_eager(_, _, _)
insert_iter_eager(self, key_elems, data) ==
    IF key_elems # <<>>
    THEN LET this_key_value == Head(key_elems)
             idx == MatchingChild(self.children, this_key_value)
         IN IF idx # 0
            THEN LET r == insert_iter_eager(self.children[idx], Tail(key_elems), data)
                 IN [trie |-> [self EXCEPT !.children[idx] = r.trie], res |-> r.res]
            ELSE LET r == insert_iter_eager(
                             [new_child(this_key_value) EXCEPT !.data = Some(data)],
                             Tail(key_elems), data)
                 IN [trie |-> [self EXCEPT !.children = Append(@, r.trie)],
                     res |-> IF Tail(key_elems) = <<>> THEN Ok ELSE r.res]
    ELSE IF self.data = None
         THEN [trie |-> [self EXCEPT !.data = Some(data)], res |-> Ok]
         ELSE [trie |-> self, res |-> Err]

\* Trie::insert_iter: the pair (self after the call, returned ErrType)
RECURSIVE insert_iter(_, _, _)
insert_iter(self, key_elems, data) ==
    IF key_elems # <<>>
    THEN LET this_key_value == Head(key_elems)
             idx == MatchingChild(self.children, this_key_value)
         IN IF idx # 0
            THEN \* insert into the child, return its result
                 LET r == insert_iter(self.children[idx], Tail(key_elems), data)
                 IN [trie |-> [self EXCEPT !.children[idx] = r.trie], res |-> r.res]
            ELSE \* make a new one, insert into it, push it
                 LET r == insert_iter(new_child(this_key_value), Tail(key_elems), data)
                 IN [trie |-> [self EXCEPT !.children = Append(@, r.trie)], res |-> r.res]
    ELSE IF self.data = None
         THEN [trie |-> [self EXCEPT !.data = Some(data)], res |-> Ok]
         ELSE [trie |-> self, res |-> Err]

\* Trie::insert
insert(self, key, data) == insert_iter(self, key, data)

\* ----------------------------------------------------------------- search
\* mutant: after a fruitless descent the node offers its own value
RECURSIVE search_iter_backtrack(_, _)
search_iter_backtrack(self, key_elems) ==
    IF key_elems # <<>>
    THEN LET idx == MatchingChild(self.children, Head(key_elems))
         IN IF idx # 0
            THEN LET r == search_iter_backtrack(self.children[idx], Tail(key_elems))
                 IN IF r # None THEN r ELSE self.data
            ELSE self.data
    ELSE self.data

\* mutant: the first value met on the way down is returned (shortest match)
RECURSIVE search_iter_shortest(_, _)
search_iter_shortest(self, key_elems) ==
    IF self.data # None THEN self.data
    ELSE IF key_elems # <<>>
    THEN LET idx == MatchingChild(self.children, Head(key_elems))
         IN IF idx # 0
            THEN search_iter_shortest(self.children[idx], Tail(key_elems))
            ELSE self.data
    ELSE self.data

\* mutant: when no child matches, the first child is followed anyway
RECURSIVE search_iter_anychild(_, _)
search_iter_anychild(self, key_elems) ==
    IF key_elems # <<>>
    THEN LET idx == MatchingChild(self.children, Head(key_elems))
         IN IF idx # 0
            THEN search_iter_anychild(self.children[idx], Tail(key_elems))
            ELSE IF self.children # <<>>
                 THEN search_iter_anychild(self.children[1], Tail(key_elems))
                 ELSE self.data
    ELSE self.data

\* Trie::search_iter: Option<&D>
RECURSIVE search_iter(_, _)
search_iter(self, key_elems) ==
    IF key_elems # <<>>
    THEN LET idx == MatchingChild(self.children, Head(key_elems))
         IN IF idx # 0
            THEN \* recurse, the child's result is returned as it is
                 search_iter(self.children[idx], Tail(key_elems))
            ELSE self.data
    ELSE self.data

\* Trie::search
search(self, key) == search_iter(self, key)

\* ------------------------------------------------------------------ state
VARIABLES
    t,          \* the trie owned by the caller
    inserted,   \* key -> data of the insert calls that returned Ok
    lastOp      \* the last call made on t and what it returned

vars == <<t, inserted, lastOp>>

NoOp == [op |-> "new_empty", key |-> <<>>, data |-> None, ires |-> "-", sres |-> None]

Init ==
    /\ t = new_empty
    /\ inserted = <<>>
    /\ lastOp = NoOp

Insert(K, V) ==
    /\ K \in DOMAIN inserted \/ Cardinality(DOMAIN inserted) < MaxInserts
    /\ LET r == insert(t, K, V)
       IN /\ t' = r.trie
          /\ inserted' = IF r.res = Ok THEN (K :> V) @@ inserted ELSE inserted
          /\ lastOp' = [op |-> "insert", key |-> K, data |-> Some(V),
                        ires |-> r.res, sres |-> None]

Search(Q) ==
    /\ lastOp' = [op |-> "search", key |-> Q, data |-> None,
                  ires |-> "-", sres |-> search(t, Q)]
    /\ UNCHANGED <<t, inserted>>

DoInsert == \E K \in Keys, V \in Values : Insert(K, V)

DoSearch == \E Q \in Queries : Search(Q)

Next == DoInsert \/ DoSearch

Spec == Init /\ [][Next]_vars

\* ------------------------------------------- vocabulary of the properties
IsPrefix(p, q) == Len(p) <= Len(q) /\ SubSeq(q, 1, Len(p)) = p

IsProperPrefix(p, q) == IsPrefix(p, q) /\ Len(p) < Len(q)

Prefixes(q) == {SubSeq(q, 1, n) : n \in 0..Len(q)}

InsertedKeys == DOMAIN inserted

\* every node of the tree rooted at n
RECURSIVE AllNodes(_)
AllNodes(n) == {n} \cup UNION {AllNodes(n.children[i]) : i \in 1..Len(n.children)}

\* the key sequences spelled by the root-to-node paths of the tree rooted at n
RECURSIVE Paths(_)
Paths(n) ==
    {<<>>} \cup UNION {{n.children[i].key \o p : p \in Paths(n.children[i])} :
                          i \in 1..Len(n.children)}

\* the node at the end of path p (p in Paths(n))
RECURSIVE NodeAt(_, _)
NodeAt(n, p) ==
    IF p = <<>> THEN n
    ELSE LET i == CHOOSE j \in 1..Len(n.children) : n.children[j].key = Some(Head(p))
         IN NodeAt(n.children[i], Tail(p))

\* p spells a root-to-node path of the tree rooted at n
RECURSIVE HasPath(_, _)
HasPath(n, p) ==
    \/ p = <<>>
    \/ \E i \in 1..Len(n.children) :
           /\ n.children[i].key = Some(Head(p))
           /\ HasPath(n.children[i], Tail(p))

\* the longest prefix of Q that is a path of the trie
DeepestPath(n, Q) ==
    LET k == CHOOSE j \in 0..Len(Q) :
                 /\ HasPath(n, SubSeq(Q, 1, j))
                 /\ j < Len(Q) => ~HasPath(n, SubSeq(Q, 1, j + 1))
    IN SubSeq(Q, 1, k)

NoDuplicateEdges(n) ==
    \A i, j \in 1..Len(n.children) :
        n.children[i].key = n.children[j].key => i = j

\* the two stored keys are a key P and an extension E of it, distinct values
PrefixPair(P, E) ==
    /\ InsertedKeys = {P, E}
    /\ IsProperPrefix(P, E)
    /\ inserted[P] # inserted[E]

\* ------------------------------------------------------------- properties

\* C1 - Round trip: an insert of a key that has no value yet returns Ok, and
\* a search of that key on the resulting trie returns the inserted value
\* (the empty key included).
C1_RoundTrip ==
    [][(lastOp'.op = "insert" /\ lastOp'.key \notin InsertedKeys)
          => /\ lastOp'.ires = Ok
             /\ search(t', lastOp'.key) = lastOp'.data]_vars

C1_Witness ==
    /\ lastOp.op = "insert"
    /\ lastOp.ires = Ok
    /\ Len(lastOp.key) = MaxKeyLen
    /\ Cardinality(InsertedKeys) >= 2
    /\ search(t, lastOp.key) = lastOp.data

\* C2 - Duplicate rejection: an insert of a key that already has a value
\* returns the duplicate-key error and leaves the whole trie as it was, so
\* the search of the key still returns the first value.
C2_DuplicateRejected ==
    [][(lastOp'.op = "insert" /\ lastOp'.key \in InsertedKeys)
          => /\ lastOp'.ires = Err
             /\ t' = t
             /\ search(t', lastOp'.key) = Some(inserted[lastOp'.key])]_vars

C2_Witness ==
    /\ lastOp.op = "insert"
    /\ lastOp.ires = Err
    /\ lastOp.key \in InsertedKeys
    /\ lastOp.data # Some(inserted[lastOp.key])
    /\ search(t, lastOp.key) = Some(inserted[lastOp.key])

\* C3 - Longest match, fallback half: with exactly a key P and an extension E
\* stored under distinct values, the search of P, and of every query that
\* starts with P but does not start with E, returns the value of P.
\* (The trie is not changed by a search, so every pair of a reachable trie
\* and a query is the state left by some Search step.)
C3_FallbackToPrefix ==
    lastOp.op = "search" =>
        \A P, E \in InsertedKeys :
            (PrefixPair(P, E) /\ IsPrefix(P, lastOp.key) /\ ~IsPrefix(E, lastOp.key))
                => lastOp.sres = Some(inserted[P])

\* C4 - Longest match, extension half: with exactly a key P and an extension
\* E stored under distinct values, the search of every query that is E or
\* starts with E returns the value of E.
C4_ExtensionWins ==
    lastOp.op = "search" =>
        \A P, E \in InsertedKeys :
            (PrefixPair(P, E) /\ IsPrefix(E, lastOp.key))
                => lastOp.sres = Some(inserted[E])

C4_Witness ==
    /\ lastOp.op = "search"
    /\ \E P, E \in InsertedKeys :
           /\ PrefixPair(P, E)
           /\ IsProperPrefix(E, lastOp.key)
           /\ lastOp.sres = Some(inserted[E])

\* C5 - No spurious match: a query none of whose prefixes (itself and the
\* empty one included) was ever inserted successfully finds nothing.
C5_NoSpuriousMatch ==
    (lastOp.op = "search" /\ Prefixes(lastOp.key) \cap InsertedKeys = {})
        => lastOp.sres = None

C5_Witness ==
    /\ lastOp.op = "search"
    /\ lastOp.sres = None
    /\ Cardinality(InsertedKeys) = 1
    /\ \E K \in InsertedKeys : IsProperPrefix(lastOp.key, K)

C7_SingleError ==
    [][lastOp'.op = "insert"
          => /\ (lastOp'.ires = Err) <=> (lastOp'.key \in InsertedKeys)
             /\ (lastOp'.ires # Err) =>
                    /\ lastOp'.ires = Ok
                    /\ \A p \in Prefixes(lastOp'.key) : HasPath(t', p)
                    /\ NodeAt(t', lastOp'.key).data = lastOp'.data]_vars

C7_Witness ==
    /\ lastOp.op = "insert"
    /\ lastOp.ires = Ok
    /\ \E K \in InsertedKeys :
           /\ IsProperPrefix(K, lastOp.key)
           /\ Len(lastOp.key) >= Len(K) + 2
           /\ NodeAt(t, SubSeq(lastOp.key, 1, Len(K) + 1)).data = None

\* C8 - Unique edges: no node has two children with the same key element,
\* every child has a key element and the root has none.
C8_UniqueEdges ==
    /\ t.key = None
    /\ \A n \in AllNodes(t) :
           /\ NoDuplicateEdges(n)
           /\ \A i \in 1..Len(n.children) : n.children[i].key # None

C8_Witness ==
    /\ lastOp.op = "insert"
    /\ lastOp.ires = Err
    /\ \E n \in AllNodes(t) : Len(n.children) >= 2 /\ n.key # None

\* C9 - Write once: a value held by a node is never changed or removed by a
\* later call, and the search of its key keeps returning it.
C9_WriteOnce ==
    [][t' # t =>
           \A p \in Paths(t) :
               LET v == NodeAt(t, p).data
               IN v # None => /\ HasPath(t', p)
                              /\ NodeAt(t', p).data = v
                              /\ search(t', p) = v]_vars

C9_Witness ==
    /\ lastOp.op = "insert"
    /\ lastOp.ires = Ok
    /\ \E K \in InsertedKeys :
           /\ IsProperPrefix(lastOp.key, K)
           /\ search(t, K) = Some(inserted[K])
           /\ Some(inserted[K]) # lastOp.data

\* C10 - Refinement of a map: the paths of the trie are the root plus the
\* prefixes of the successfully inserted keys, and a node holds a value
\* exactly when its path is such a key, namely the value of its first insert.
C10_RefinesMap ==
    /\ Paths(t) = {<<>>} \cup UNION {Prefixes(K) : K \in InsertedKeys}
    /\ \A p \in Paths(t) :
           NodeAt(t, p).data = IF p \in InsertedKeys THEN Some(inserted[p]) ELSE None

C10_Witness ==
    /\ Cardinality(InsertedKeys) = MaxInserts
    /\ \E p \in Paths(t) : p # <<>> /\ NodeAt(t, p).data = None
    /\ \E n \in AllNodes(t) : Len(n.children) >= 2

====
